---- MODULE Spec2Model ----
(***************************************************************************)
(* ParticleBackground (src/components/ParticleBackground.tsx): the effect  *)
(* closure of the animated canvas background, its particle / wave          *)
(* simulations, the render loop and the browser queues it registers with.  *)
(*                                                                         *)
(* Numbers.  Lengths are fixed-point integers in hundredths of a pixel     *)
(* (1 px = 100), Math.random() values are hundredths, the wave clock is in *)
(* thousandths.  The random table holds multiples of 0.1, for which every  *)
(* product of initParticles / initWaves is exact at this resolution;       *)
(* quotients that are not are truncated toward zero (Div), and Math.sqrt   *)
(* is rounded down to the resolution (Isqrt).                              *)
(***************************************************************************)
EXTENDS Integers, Sequences, FiniteSets, TLC

VARIABLES
    phase,              \* "init" | "mounted" | "unmounted": life of the component
    canvasPresent,      \* canvasRef.current is an element
    ctxAvailable,       \* canvas.getContext('2d') is a context
    canvasWidth,        \* canvas.width  (px)
    canvasHeight,       \* canvas.height (px)
    innerWidth,         \* window.innerWidth  (px)
    innerHeight,        \* window.innerHeight (px)
    parentHeight,       \* canvas.parentElement?.clientHeight: <<>> or <<px>>
    rng,                \* position of Math.random() in its sequence
    inst,               \* the effect closures created so far, in order
    rafQueue,           \* pending requestAnimationFrame callbacks [id, owner]
    nextFrameId,        \* the id the next requestAnimationFrame returns
    timers,             \* closures whose setTimeout(resizeCanvas, 100) is pending
    resizeListeners,    \* closures whose resizeCanvas listens to 'resize'
    mousemoveListeners, \* closures whose handleMouseMove listens to 'mousemove'
    painted,            \* what is on the canvas: the draw calls since it was cleared
    epoch,              \* number of initParticles / initWaves calls so far
    steps               \* number of events handled so far, pointer moves apart

vars == <<phase, canvasPresent, ctxAvailable, canvasWidth, canvasHeight,
          innerWidth, innerHeight, parentHeight, rng, inst, rafQueue,
          nextFrameId, timers, resizeListeners, mousemoveListeners, painted,
          epoch, steps>>

(***************************************************************************)
(* Bounds of the exploration: events handled (pointer moves, which only    *)
(* set mouse.x / mouse.y, are not counted) and effect runs of a component. *)
(***************************************************************************)
MaxSteps == 4
MaxInstances == 2

(***************************************************************************)
(* Values.                                                                 *)
(***************************************************************************)
Undefined == <<>>
Some(v) == <<v>>
Val(o) == o[1]

AnimationType == {"network", "waves", "dots"}

Abs(a) == IF a < 0 THEN -a ELSE a
Min(a, b) == IF a < b THEN a ELSE b
Max(a, b) == IF a > b THEN a ELSE b

\* a / b of two numbers, truncated toward zero at the resolution
Div(a, b) == IF a >= 0 THEN a \div b ELSE -((-a) \div b)

\* px -> hundredths of a px
Px(n) == n * 100

RECURSIVE IsqrtIter(_, _, _)
IsqrtIter(n, lo, hi) ==
    IF lo = hi THEN lo
    ELSE LET mid == (lo + hi + 1) \div 2
         IN  IF mid * mid <= n THEN IsqrtIter(n, mid, hi)
                               ELSE IsqrtIter(n, lo, mid - 1)

\* Math.sqrt, rounded down to the resolution
Isqrt(n) == IsqrtIter(n, 0, 46340)

\* Math.sqrt(a * a + b * b).  Beyond 300 px on one axis the root is not taken
\* (the squares leave the 32-bit range): the larger leg, a lower bound that is
\* above every threshold the code compares a distance with, stands for it.
Distance(a, b) ==
    IF Abs(a) >= 30000 \/ Abs(b) >= 30000 THEN Max(Abs(a), Abs(b))
    ELSE Isqrt(a * a + b * b)

\* Math.sqrt(a * a + b * b) < limit, for 0 <= limit <= 300 px, without the root
Within(a, b, limit) ==
    /\ Abs(a) < limit
    /\ Abs(b) < limit
    /\ a * a + b * b < limit * limit

(***************************************************************************)
(* The environment: Math.random(), the window, the pointer.                *)
(***************************************************************************)
\* One period of the Math.random() sequence, in hundredths
RandTable == <<0, 50, 20, 90, 10, 70, 40>>

\* the k-th value Math.random() returns from position r on (k = 0, 1, ...)
Random(r, k) == RandTable[((r + k) % Len(RandTable)) + 1]

Seeds == {0}

\* window.innerWidth, window.innerHeight, parent clientHeight (px)
WindowSizes ==
    { [w |-> 500,  h |-> 800, ph |-> Some(0)],
      [w |-> 1200, h |-> 600, ph |-> Some(400)] }

\* the window the component mounts in
InitialWindow == [w |-> 500, h |-> 800, ph |-> Some(0)]

\* event.clientX, event.clientY (px)
Points == { [x |-> 499, y |-> 320], [x |-> 150, y |-> 1] }

\* a <canvas> without width / height attributes is 300 x 150
CanvasDefaultWidth == 300
CanvasDefaultHeight == 150

(***************************************************************************)
(* The closure of one run of the effect.                                   *)
(***************************************************************************)
MouseRadius == 150

NewClosure(t, ok) ==
    [ type |-> t,
      active |-> ok,                  \* the effect got past its early returns
      tornDown |-> FALSE,             \* the effect has been cleaned up
      animationFrameId |-> Undefined,
      particles |-> <<>>,
      waves |-> <<>>,
      time |-> 0,
      mouse |-> [x |-> Undefined, y |-> Undefined] ]

Blank == [owner |-> 0, discs |-> 0, fills |-> 0, lines |-> {}]

\* an effect that checks the canvas but not the context
SetupProceedsWithoutCtx(canvas, ctx) == canvas

\* if (!canvas) return; ... if (!ctx) return;
SetupProceeds(canvas, ctx) == canvas /\ ctx

(***************************************************************************)
(* Particles.                                                              *)
(***************************************************************************)
MobileBreakpoint == 768
NetworkCountMobile == 40
NetworkCountDesktop == 80
DotsCountMobile == 60
DotsCountDesktop == 180

ParticleCount(t, iw) ==
    LET isMobile == iw < MobileBreakpoint
    IN  IF t = "network"
        THEN (IF isMobile THEN NetworkCountMobile ELSE NetworkCountDesktop)
        ELSE (IF isMobile THEN DotsCountMobile ELSE DotsCountDesktop)

\* new Particle(x, y, dx, dy, radius, color); r is the position of
\* Math.random() when the loop body starts, i the loop index (from 0)
Particle(t, cw, ch, r, i, ep) ==
    LET speed  == IF t = "dots" THEN 20 ELSE 40
        radius == IF t = "network" THEN Random(r, 0) * 2 + 100
                                   ELSE Div(Random(r, 0) * 250, 100) + 100
        x  == Div(Random(r, 1) * (Px(cw) - radius * 2), 100) + radius
        y  == Div(Random(r, 2) * (Px(ch) - radius * 2), 100) + radius
        dx == Div((Random(r, 3) - 50) * speed, 100)
        dy == Div((Random(r, 4) - 50) * speed, 100)
        color == IF i % 3 = 0 THEN "rgba(123, 62, 240, 0.85)"
                              ELSE "rgba(106, 236, 255, 0.85)"
    IN  [ x |-> x, y |-> y, dx |-> dx, dy |-> dy,
          baseRadius |-> radius, radius |-> radius, color |-> color,
          baseX |-> x, baseY |-> y,
          density |-> Random(r, 5) * 30 + 100,
          id |-> <<ep, i>> ]

\* the particles array initParticles leaves, six Math.random() calls each
initParticles(t, cw, ch, iw, r, ep) ==
    [ j \in 1 .. ParticleCount(t, iw) |->
        Particle(t, cw, ch, r + 6 * (j - 1), j - 1, ep) ]

\* Particle.update whose magnification grows the radius by 0.1 a frame toward
\* its target instead of assigning the target
ParticleUpdateGrowing(p, m, t, cw, ch) ==
    LET dx1 == IF p.x + p.radius > Px(cw) \/ p.x - p.radius < 0
               THEN -p.dx ELSE p.dx
        dy1 == IF p.y + p.radius > Px(ch) \/ p.y - p.radius < 0
               THEN -p.dy ELSE p.dy
        x1 == p.x + dx1
        y1 == p.y + dy1
        moved == [p EXCEPT !.dx = dx1, !.dy = dy1, !.x = x1, !.y = y1]
    IN  IF m.x # Undefined /\ m.y # Undefined
        THEN LET dxMouse  == Px(Val(m.x)) - x1
                 dyMouse  == Px(Val(m.y)) - y1
                 distance == Distance(dxMouse, dyMouse)
             IN  IF t = "network"
                 THEN IF distance < Px(MouseRadius)
                      THEN [moved EXCEPT !.x = x1 - Div(dxMouse, 20),
                                         !.y = y1 - Div(dyMouse, 20)]
                      ELSE moved
                 ELSE IF t = "dots"
                 THEN IF distance < Px(MouseRadius)
                      THEN [moved EXCEPT !.radius =
                              Min(p.radius + 10,
                                  Min(p.baseRadius * 3,
                                      p.baseRadius + Div(Px(MouseRadius) - distance, 10)))]
                      ELSE IF p.radius > p.baseRadius
                      THEN [moved EXCEPT !.radius = p.radius - 10]
                      ELSE moved
                 ELSE moved
        ELSE moved

\* Particle.update() without its draw(): p the particle, m the mouse
ParticleUpdate(p, m, t, cw, ch) ==
    LET dx1 == IF p.x + p.radius > Px(cw) \/ p.x - p.radius < 0
               THEN -p.dx ELSE p.dx
        dy1 == IF p.y + p.radius > Px(ch) \/ p.y - p.radius < 0
               THEN -p.dy ELSE p.dy
        x1 == p.x + dx1
        y1 == p.y + dy1
        moved == [p EXCEPT !.dx = dx1, !.dy = dy1, !.x = x1, !.y = y1]
    IN  IF m.x # Undefined /\ m.y # Undefined
        THEN LET dxMouse  == Px(Val(m.x)) - x1
                 dyMouse  == Px(Val(m.y)) - y1
                 distance == Distance(dxMouse, dyMouse)
             IN  IF t = "network"
                 THEN IF distance < Px(MouseRadius)
                      THEN [moved EXCEPT !.x = x1 - Div(dxMouse, 20),
                                         !.y = y1 - Div(dyMouse, 20)]
                      ELSE moved
                 ELSE IF t = "dots"
                 THEN IF distance < Px(MouseRadius)
                      THEN [moved EXCEPT !.radius =
                              Min(p.baseRadius * 3,
                                  p.baseRadius + Div(Px(MouseRadius) - distance, 10))]
                      ELSE IF p.radius > p.baseRadius
                      THEN [moved EXCEPT !.radius = p.radius - 10]
                      ELSE moved
                 ELSE moved
        ELSE moved

\* the index pairs connect() strokes a line for: for a, for b = a ...
connect(ps, cw) ==
    LET connectDistance == Div(Px(cw), 8)
    IN  { ab \in (1 .. Len(ps)) \X (1 .. Len(ps)) :
            /\ ab[2] >= ab[1]
            /\ Within(ps[ab[1]].x - ps[ab[2]].x, ps[ab[1]].y - ps[ab[2]].y,
                      connectDistance) }

(***************************************************************************)
(* Waves.                                                                  *)
(***************************************************************************)
WaveColors(isDarkMode) ==
    IF isDarkMode
    THEN <<"rgba(123, 62, 240, 0.5)", "rgba(106, 236, 255, 0.5)", "rgba(123, 62, 240, 0.35)">>
    ELSE <<"rgba(123, 62, 240, 0.4)", "rgba(106, 236, 255, 0.4)", "rgba(123, 62, 240, 0.25)">>

\* the waves array initWaves leaves, five Math.random() calls each
initWaves(ch, isDarkMode, r, ep) ==
    LET colors == WaveColors(isDarkMode)
    IN  [ j \in 1 .. Len(colors) |->
            LET r0 == r + 5 * (j - 1)
            IN  [ timeModifier  |-> Div(Random(r0, 0) * 40, 100) + 60,
                  baseAmplitude |-> Random(r0, 1) * 60 + 5000,
                  amplitude     |-> Random(r0, 2) * 60 + 5000,
                  wavelength    |-> Random(r0, 3) * 200 + 25000,
                  color         |-> colors[j],
                  yOffset       |-> Div(Random(r0, 4) * Px(ch), 400),
                  id            |-> <<ep, j - 1>> ] ]

\* drawWaves without its mouse.y !== undefined guard (an absent pointer read as 0)
drawWavesUnguarded(ws, m, ch) ==
    [ j \in 1 .. Len(ws) |->
        [ws[j] EXCEPT !.amplitude =
           ws[j].baseAmplitude
           + Div((2 * (IF m.y # Undefined THEN Val(m.y) ELSE 0) - ch) * 2000 * j, ch)] ]

\* the waves array after drawWaves: index is the forEach index (from 0)
drawWaves(ws, m, ch) ==
    [ j \in 1 .. Len(ws) |->
        IF m.y # Undefined
        THEN [ws[j] EXCEPT !.amplitude =
                ws[j].baseAmplitude
                + Div((2 * Val(m.y) - ch) * 2000 * j, ch)]
        ELSE ws[j] ]

(***************************************************************************)
(* The handlers, as updates of the state they write.                       *)
(***************************************************************************)
\* animate() that requests a frame before drawing and again after it
animateTwice(i, cs, q) ==
    IF ~ctxAvailable
    THEN /\ inst' = cs
         /\ rafQueue' = q
         /\ UNCHANGED <<painted, nextFrameId>>
    ELSE LET c  == cs[i]
             ps == [j \in 1 .. Len(c.particles) |->
                      ParticleUpdate(c.particles[j], c.mouse, c.type,
                                     canvasWidth, canvasHeight)]
         IN  /\ inst' =
                  [cs EXCEPT ![i] =
                     [c EXCEPT
                        !.particles = IF c.type \in {"network", "dots"}
                                      THEN ps ELSE c.particles,
                        !.time  = IF c.type = "waves" THEN c.time + 15 ELSE c.time,
                        !.waves = IF c.type = "waves"
                                  THEN drawWaves(c.waves, c.mouse, canvasHeight)
                                  ELSE c.waves,
                        !.animationFrameId = Some(nextFrameId + 1)]]
             /\ painted' =
                  [ owner |-> i,
                    discs |-> IF c.type \in {"network", "dots"}
                              THEN Len(c.particles) ELSE 0,
                    fills |-> IF c.type = "waves" THEN Len(c.waves) ELSE 0,
                    lines |-> IF c.type = "network"
                              THEN connect(ps, canvasWidth) ELSE {} ]
             /\ rafQueue' = q \cup {[id |-> nextFrameId, owner |-> i],
                                    [id |-> nextFrameId + 1, owner |-> i]}
             /\ nextFrameId' = nextFrameId + 2

\* animate() of closure i, on closures cs and frame queue q
animate(i, cs, q) ==
    IF ~ctxAvailable
    THEN /\ inst' = cs
         /\ rafQueue' = q
         /\ UNCHANGED <<painted, nextFrameId>>
    ELSE LET c  == cs[i]
             ps == [j \in 1 .. Len(c.particles) |->
                      ParticleUpdate(c.particles[j], c.mouse, c.type,
                                     canvasWidth, canvasHeight)]
         IN  /\ inst' =
                  [cs EXCEPT ![i] =
                     [c EXCEPT
                        !.particles = IF c.type \in {"network", "dots"}
                                      THEN ps ELSE c.particles,
                        !.time  = IF c.type = "waves" THEN c.time + 15 ELSE c.time,
                        !.waves = IF c.type = "waves"
                                  THEN drawWaves(c.waves, c.mouse, canvasHeight)
                                  ELSE c.waves,
                        !.animationFrameId = Some(nextFrameId)]]
             /\ painted' =
                  [ owner |-> i,
                    discs |-> IF c.type \in {"network", "dots"}
                              THEN Len(c.particles) ELSE 0,
                    fills |-> IF c.type = "waves" THEN Len(c.waves) ELSE 0,
                    lines |-> IF c.type = "network"
                              THEN connect(ps, canvasWidth) ELSE {} ]
             /\ rafQueue' = q \cup {[id |-> nextFrameId, owner |-> i]}
             /\ nextFrameId' = nextFrameId + 1

\* resizeCanvas whose initParticles / initWaves do not empty the array first
resizeCanvasKeeping(i, w, h, ph, isDarkMode) ==
    LET c  == inst[i]
        cw == w
        ch == IF ph # Undefined /\ Val(ph) > 0 THEN Val(ph) ELSE h
    IN  /\ canvasWidth' = cw
        /\ canvasHeight' = ch
        /\ painted' = Blank
        /\ epoch' = epoch + 1
        /\ IF c.type \in {"network", "dots"}
           THEN /\ inst' = [inst EXCEPT ![i].particles =
                              c.particles \o initParticles(c.type, cw, ch, w, rng, epoch)]
                /\ rng' = (rng + 6 * ParticleCount(c.type, w)) % Len(RandTable)
           ELSE /\ inst' = [inst EXCEPT ![i].waves =
                              c.waves \o initWaves(ch, isDarkMode, rng, epoch)]
                /\ rng' = (rng + 5 * 3) % Len(RandTable)

\* resizeCanvas() of closure i with the window at w x h, parent height ph
resizeCanvas(i, w, h, ph, isDarkMode) ==
    LET c  == inst[i]
        cw == w
        ch == IF ph # Undefined /\ Val(ph) > 0 THEN Val(ph) ELSE h
    IN  /\ canvasWidth' = cw
        /\ canvasHeight' = ch
        /\ painted' = Blank
        /\ epoch' = epoch + 1
        /\ IF c.type \in {"network", "dots"}
           THEN /\ inst' = [inst EXCEPT ![i].particles =
                              initParticles(c.type, cw, ch, w, rng, epoch)]
                /\ rng' = (rng + 6 * ParticleCount(c.type, w)) % Len(RandTable)
           ELSE /\ inst' = [inst EXCEPT ![i].waves =
                              initWaves(ch, isDarkMode, rng, epoch)]
                /\ rng' = (rng + 5 * 3) % Len(RandTable)

\* a cleanup that cancels the frame requested before the pending one
cleanupCancelStale(q, animationFrameId) ==
    { f \in q : animationFrameId = Undefined \/ f.id # Val(animationFrameId) - 1 }

\* cancelAnimationFrame(animationFrameId) of the cleanup, on frame queue q
cleanupCancel(q, animationFrameId) ==
    { f \in q : animationFrameId = Undefined \/ f.id # Val(animationFrameId) }

\* the effect body for type t, after the closures cs, the frame queue q and the
\* listener sets rl, ml are what the previous cleanup (if any) left
setup(t, cs, q, rl, ml) ==
    LET i == Len(cs) + 1
    IN  IF ~SetupProceeds(canvasPresent, ctxAvailable)
        THEN /\ inst' = Append(cs, NewClosure(t, FALSE))
             /\ rafQueue' = q
             /\ resizeListeners' = rl
             /\ mousemoveListeners' = ml
             /\ UNCHANGED <<timers, painted, nextFrameId>>
        ELSE /\ mousemoveListeners' = ml \cup {i}
             /\ resizeListeners' = rl \cup {i}
             /\ timers' = timers \cup {i}
             /\ animate(i, Append(cs, NewClosure(t, TRUE)), q)

(***************************************************************************)
(* Actions.                                                                *)
(***************************************************************************)
Init ==
    /\ phase = "init"
    /\ canvasPresent \in BOOLEAN
    /\ ctxAvailable \in BOOLEAN
    /\ ctxAvailable => canvasPresent
    /\ canvasWidth = CanvasDefaultWidth
    /\ canvasHeight = CanvasDefaultHeight
    /\ innerWidth = InitialWindow.w
    /\ innerHeight = InitialWindow.h
    /\ parentHeight = InitialWindow.ph
    /\ rng \in Seeds
    /\ inst = <<>>
    /\ rafQueue = {}
    /\ nextFrameId = 1
    /\ timers = {}
    /\ resizeListeners = {}
    /\ mousemoveListeners = {}
    /\ painted = Blank
    /\ epoch = 1
    /\ steps = 0

\* the component mounts with prop type = t: the effect runs
Mount(t) ==
    /\ phase = "init"
    /\ steps < MaxSteps
    /\ phase' = "mounted"
    /\ steps' = steps + 1
    /\ setup(t, inst, rafQueue, resizeListeners, mousemoveListeners)
    /\ UNCHANGED <<canvasPresent, ctxAvailable, canvasWidth, canvasHeight,
                   innerWidth, innerHeight, parentHeight, rng, epoch>>

\* the prop type changes to t: cleanup of the old effect, then the new effect
ChangeType(t) ==
    /\ phase = "mounted"
    /\ steps < MaxSteps
    /\ Len(inst) < MaxInstances
    /\ t # inst[Len(inst)].type
    /\ steps' = steps + 1
    /\ LET i == Len(inst)
           c == inst[i]
       IN  IF c.active
           THEN setup(t, [inst EXCEPT ![i].tornDown = TRUE],
                      cleanupCancel(rafQueue, c.animationFrameId),
                      resizeListeners \ {i}, mousemoveListeners \ {i})
           ELSE setup(t, [inst EXCEPT ![i].tornDown = TRUE],
                      rafQueue, resizeListeners, mousemoveListeners)
    /\ UNCHANGED <<phase, canvasPresent, ctxAvailable, canvasWidth, canvasHeight,
                   innerWidth, innerHeight, parentHeight, rng, epoch>>

\* the component unmounts: cleanup of the effect
Unmount ==
    /\ phase = "mounted"
    /\ steps < MaxSteps
    /\ phase' = "unmounted"
    /\ steps' = steps + 1
    /\ LET i == Len(inst)
           c == inst[i]
       IN  /\ inst' = [inst EXCEPT ![i].tornDown = TRUE]
           /\ IF c.active
              THEN /\ rafQueue' = cleanupCancel(rafQueue, c.animationFrameId)
                   /\ resizeListeners' = resizeListeners \ {i}
                   /\ mousemoveListeners' = mousemoveListeners \ {i}
              ELSE UNCHANGED <<rafQueue, resizeListeners, mousemoveListeners>>
    /\ UNCHANGED <<canvasPresent, ctxAvailable, canvasWidth, canvasHeight,
                   innerWidth, innerHeight, parentHeight, rng, nextFrameId,
                   timers, painted, epoch>>

\* the browser runs a pending animation frame callback
Tick ==
    /\ steps < MaxSteps
    /\ \E f \in rafQueue :
          animate(f.owner, inst, rafQueue \ {f})
    /\ steps' = steps + 1
    /\ UNCHANGED <<phase, canvasPresent, ctxAvailable, canvasWidth, canvasHeight,
                   innerWidth, innerHeight, parentHeight, rng, timers,
                   resizeListeners, mousemoveListeners, epoch>>

\* a setTimeout(resizeCanvas, 100) expires
TimerFire ==
    /\ steps < MaxSteps
    /\ \E i \in timers :
          /\ timers' = timers \ {i}
          /\ \E isDarkMode \in BOOLEAN :
                resizeCanvas(i, innerWidth, innerHeight, parentHeight, isDarkMode)
    /\ steps' = steps + 1
    /\ UNCHANGED <<phase, canvasPresent, ctxAvailable, innerWidth, innerHeight,
                   parentHeight, rafQueue, nextFrameId, resizeListeners,
                   mousemoveListeners>>

\* the window is resized to s: 'resize' is dispatched to its listeners
Resize ==
    /\ steps < MaxSteps
    /\ \E s \in WindowSizes :
          /\ <<s.w, s.h, s.ph>> # <<innerWidth, innerHeight, parentHeight>>
          /\ innerWidth' = s.w
          /\ innerHeight' = s.h
          /\ parentHeight' = s.ph
          /\ IF resizeListeners = {}
             THEN UNCHANGED <<canvasWidth, canvasHeight, rng, inst, painted, epoch>>
             ELSE \E i \in resizeListeners : \E isDarkMode \in BOOLEAN :
                     resizeCanvas(i, s.w, s.h, s.ph, isDarkMode)
    /\ steps' = steps + 1
    /\ UNCHANGED <<phase, canvasPresent, ctxAvailable, rafQueue, nextFrameId,
                   timers, resizeListeners, mousemoveListeners>>

\* the pointer moves to p: 'mousemove' is dispatched to its listeners
MouseMove ==
    /\ \E p \in Points :
          inst' = [ i \in 1 .. Len(inst) |->
                      IF i \in mousemoveListeners
                      THEN [inst[i] EXCEPT !.mouse = [x |-> Some(p.x), y |-> Some(p.y)]]
                      ELSE inst[i] ]
    /\ UNCHANGED <<phase, canvasPresent, ctxAvailable, canvasWidth, canvasHeight,
                   innerWidth, innerHeight, parentHeight, rng, rafQueue,
                   nextFrameId, timers, resizeListeners, mousemoveListeners,
                   painted, epoch, steps>>

Next ==
    \/ \E t \in AnimationType : Mount(t)
    \/ \E t \in AnimationType : ChangeType(t)
    \/ Unmount
    \/ Tick
    \/ TimerFire
    \/ Resize
    \/ MouseMove

Spec == Init /\ [][Next]_vars

(***************************************************************************)
(* Properties.                                                             *)
(***************************************************************************)
IsParticleType(t) == t \in {"network", "dots"}

\* the closure i had before this step (a fresh one, if the step creates it)
Before(i) == IF i <= Len(inst) THEN inst[i] ELSE NewClosure(inst'[i].type, inst'[i].active)

\* this step ran animate() of closure i
Animated(i) ==
    /\ i <= Len(inst)
    /\ inst'[i].animationFrameId # inst[i].animationFrameId

Ids(c) == { c.particles[j].id : j \in 1 .. Len(c.particles) }
            \cup { c.waves[j].id : j \in 1 .. Len(c.waves) }

\* this step ran animate() of closure i on the entities it had
AnimatedInPlace(i) ==
    /\ Animated(i)
    /\ Len(inst'[i].particles) = Len(inst[i].particles)
    /\ Len(inst'[i].waves) = Len(inst[i].waves)
    /\ Ids(inst'[i]) = Ids(inst[i])

\* C1: after its teardown no callback of a closure runs and nothing it owns
\* changes: its particles, waves, clock, pointer state stay as they were, its
\* deferred-resize timer does not fire, and once the component is unmounted
\* the canvas keeps its width and height.
C1_NothingAfterTeardown ==
    [][ \A i \in 1 .. Len(inst) :
          inst[i].tornDown =>
            /\ inst'[i] = inst[i]
            /\ (i \in timers => i \in timers')
            /\ (phase = "unmounted" =>
                  canvasWidth' = canvasWidth /\ canvasHeight' = canvasHeight) ]_vars

\* C2: bounce invariant: every particle of a mounted network / dots closure
\* has radius <= x <= canvas.width - radius and radius <= y <= canvas.height - radius.
C2_BounceInvariant ==
    \A i \in 1 .. Len(inst) :
      (IsParticleType(inst[i].type) /\ ~inst[i].tornDown) =>
        \A j \in 1 .. Len(inst[i].particles) :
          LET p == inst[i].particles[j]
          IN  /\ p.radius <= p.x /\ p.x <= Px(canvasWidth) - p.radius
              /\ p.radius <= p.y /\ p.y <= Px(canvasHeight) - p.radius

\* the pointer of closure c is absent or at least mouse.radius away from (x, y)
OutOfInfluence(c, x, y) ==
    \/ c.mouse.x = Undefined
    \/ c.mouse.y = Undefined
    \/ ~Within(Px(Val(c.mouse.x)) - x, Px(Val(c.mouse.y)) - y, Px(MouseRadius))

\* C3: in dots mode a radius is never below baseRadius, and in a frame in
\* which the pointer is absent or outside the influence radius a magnified
\* radius does not grow.
C3_DecayNeverUndershoots ==
    [][ \A i \in 1 .. Len(inst') :
          inst'[i].type = "dots" =>
            /\ \A j \in 1 .. Len(inst'[i].particles) :
                 inst'[i].particles[j].radius >= inst'[i].particles[j].baseRadius
            /\ AnimatedInPlace(i) =>
                 \A j \in 1 .. Len(inst[i].particles) :
                   LET p == inst[i].particles[j]
                       q == inst'[i].particles[j]
                   IN  (p.radius > p.baseRadius /\ OutOfInfluence(inst[i], q.x, q.y))
                         => q.radius <= p.radius ]_vars

\* C4: the lines connect() has drawn are exactly the pairs of two distinct
\* particles at a distance strictly below canvas.width / 8, one line each.
C4_LinesAreTheClosePairs ==
    (painted.owner # 0 /\ inst[painted.owner].type = "network") =>
      LET ps == inst[painted.owner].particles
      IN  painted.lines =
            { ab \in (1 .. Len(ps)) \X (1 .. Len(ps)) :
                /\ ab[1] < ab[2]
                /\ Within(ps[ab[1]].x - ps[ab[2]].x, ps[ab[1]].y - ps[ab[2]].y,
                          Div(Px(canvasWidth), 8)) }

\* the count the mode and the device class fix
ExpectedCount(t, iw) ==
    IF t = "network" THEN (IF iw < 768 THEN 40 ELSE 80)
    ELSE IF t = "dots" THEN (IF iw < 768 THEN 60 ELSE 180)
    ELSE 3

\* C5: a step that gives a closure new entities (a resizeCanvas call) leaves
\* none of the entities it had, and leaves exactly the count of its mode and
\* of the device class of window.innerWidth, all in the collection of its
\* mode; the other collection stays empty.
C5_ReinitReplacesAll ==
    [][ \A i \in 1 .. Len(inst') :
          LET old == Before(i)
              new == inst'[i]
              own == IF IsParticleType(new.type) THEN new.particles ELSE new.waves
              other == IF IsParticleType(new.type) THEN new.waves ELSE new.particles
          IN  /\ other = <<>>
              /\ Cardinality(Ids(new)) = Len(own)
              /\ Ids(new) # Ids(old) =>
                   /\ Ids(new) \cap Ids(old) = {}
                   /\ Len(own) = ExpectedCount(new.type, innerWidth') ]_vars

\* a closure re-initialized by a window resize after its deferred resize: the
\* 40 particles of the narrow window gave way to the 80 of the wide one
C5_Witness ==
    /\ Len(inst) = 1
    /\ inst[1].type = "network"
    /\ epoch = 3
    /\ innerWidth = 1200
    /\ Len(inst[1].particles) = 80
    /\ \A j \in 1 .. 80 : inst[1].particles[j].id[1] = 2

\* C6: in a frame of a closure that has received no mousemove, a network
\* particle moves by its velocity alone, a dots radius is its baseRadius, and
\* a wave amplitude is what it was.
C6_NoPointerNoEffect ==
    [][ \A i \in 1 .. Len(inst) :
          (AnimatedInPlace(i)
             /\ inst[i].mouse.x = Undefined /\ inst[i].mouse.y = Undefined) =>
            /\ \A j \in 1 .. Len(inst[i].particles) :
                 LET p == inst[i].particles[j]
                     q == inst'[i].particles[j]
                 IN  /\ q.x = p.x + q.dx
                     /\ q.y = p.y + q.dy
                     /\ q.radius = p.radius
                     /\ inst[i].type = "dots" => q.radius = q.baseRadius
            /\ \A j \in 1 .. Len(inst[i].waves) :
                 inst'[i].waves[j].amplitude = inst[i].waves[j].amplitude ]_vars

\* frames of a pointer-less closure have run on its entities: network
\* particles have left their initial positions
C6_Witness ==
    \E i \in 1 .. Len(inst) :
      /\ inst[i].type = "network"
      /\ inst[i].mouse.x = Undefined
      /\ inst[i].particles # <<>>
      /\ \E j \in 1 .. Len(inst[i].particles) :
            inst[i].particles[j].x # inst[i].particles[j].baseX

\* the same for waves: the clock has advanced past the frame of the mount
\* with the waves in place and their amplitudes as initWaves drew them
C6_WitnessWaves ==
    \E i \in 1 .. Len(inst) :
      /\ inst[i].type = "waves"
      /\ inst[i].mouse.y = Undefined
      /\ inst[i].waves # <<>>
      /\ painted.owner = i
      /\ painted.fills = 3

\* C7: without a canvas or without a 2D context nothing is registered,
\* armed, requested or written, whatever window events follow.
C7_NoSurfaceNoWork ==
    ~(canvasPresent /\ ctxAvailable) =>
      /\ resizeListeners = {}
      /\ mousemoveListeners = {}
      /\ timers = {}
      /\ rafQueue = {}
      /\ nextFrameId = 1
      /\ painted = Blank
      /\ epoch = 1
      /\ canvasWidth = CanvasDefaultWidth
      /\ canvasHeight = CanvasDefaultHeight
      /\ \A i \in 1 .. Len(inst) :
            inst[i] = [NewClosure(inst[i].type, FALSE) EXCEPT !.tornDown = inst[i].tornDown]

\* an effect without a context, after a resize of the window
C7_Witness ==
    /\ canvasPresent
    /\ ~ctxAvailable
    /\ Len(inst) >= 1
    /\ innerWidth # canvasWidth
    /\ steps >= 3

\* C8: every frame runs after the first resizeCanvas of its closure: the
\* surface has the computed dimensions and the frame draws the full count.
C8_FramesAfterInitialResize ==
    painted.owner # 0 =>
      LET c == inst[painted.owner]
      IN  /\ canvasWidth = innerWidth
          /\ IsParticleType(c.type) => painted.discs = ExpectedCount(c.type, innerWidth)
          /\ c.type = "waves" => painted.fills = 3

\* C9: in a frame a velocity component changes sign exactly when advancing
\* by it would take the leading edge outside the surface on that axis, and
\* its magnitude is kept.
C9_FlipIffWouldCross ==
    [][ \A i \in 1 .. Len(inst) :
          (AnimatedInPlace(i) /\ IsParticleType(inst[i].type)) =>
            \A j \in 1 .. Len(inst[i].particles) :
              LET p == inst[i].particles[j]
                  q == inst'[i].particles[j]
                  exitX == \/ p.x + p.dx + p.radius > Px(canvasWidth)
                           \/ p.x + p.dx - p.radius < 0
                  exitY == \/ p.y + p.dy + p.radius > Px(canvasHeight)
                           \/ p.y + p.dy - p.radius < 0
              IN  /\ Abs(q.dx) = Abs(p.dx)
                  /\ Abs(q.dy) = Abs(p.dy)
                  /\ p.dx # 0 => (q.dx = -p.dx <=> exitX)
                  /\ p.dy # 0 => (q.dy = -p.dy <=> exitY) ]_vars

\* C10: a torn-down closure has no pending animation frame, from the state
\* the cleanup leaves on, and its animate never runs again.
C10_TeardownStopsLoop ==
    [][ \A i \in 1 .. Len(inst') :
          inst'[i].tornDown =>
            /\ \A f \in rafQueue' : f.owner # i
            /\ (i <= Len(inst) /\ inst[i].tornDown) =>
                  inst'[i].animationFrameId = inst[i].animationFrameId ]_vars

\* a closure torn down right after a frame had rescheduled itself, and an
\* event handled since
C10_Witness ==
    /\ phase = "unmounted"
    /\ inst[1].active
    /\ inst[1].tornDown
    /\ inst[1].animationFrameId = Some(2)
    /\ rafQueue = {}
    /\ steps >= 4


\* C11: in dots mode a radius is never above 3 x baseRadius, and a frame in
\* which the pointer is present at a distance d below mouse.radius from the
\* particle leaves radius = min(3 x baseRadius, baseRadius + (150 - d) / 10),
\* whatever the radius was.
C11_MagnifiedRadius ==
    [][ \A i \in 1 .. Len(inst') :
          inst'[i].type = "dots" =>
            /\ \A j \in 1 .. Len(inst'[i].particles) :
                 inst'[i].particles[j].radius <= 3 * inst'[i].particles[j].baseRadius
            /\ (AnimatedInPlace(i)
                  /\ inst[i].mouse.x # Undefined /\ inst[i].mouse.y # Undefined) =>
                 \A j \in 1 .. Len(inst[i].particles) :
                   LET q == inst'[i].particles[j]
                       d == Distance(Px(Val(inst[i].mouse.x)) - q.x,
                                     Px(Val(inst[i].mouse.y)) - q.y)
                   IN  d < 15000 =>
                         q.radius =
                           IF 3 * q.baseRadius < q.baseRadius + Div(15000 - d, 10)
                           THEN 3 * q.baseRadius
                           ELSE q.baseRadius + Div(15000 - d, 10) ]_vars

\* a dots frame with the pointer in range has left a particle at the cap of
\* 3 x baseRadius
C11_Witness ==
    \E i \in 1 .. Len(inst) :
      /\ inst[i].type = "dots"
      /\ inst[i].mouse.x # Undefined
      /\ \E j \in 1 .. Len(inst[i].particles) :
            inst[i].particles[j].radius = 3 * inst[i].particles[j].baseRadius

\* the same below the cap: a particle magnified to less than 3 x baseRadius
C11_WitnessBelowCap ==
    \E i \in 1 .. Len(inst) :
      /\ inst[i].type = "dots"
      /\ inst[i].mouse.x # Undefined
      /\ \E j \in 1 .. Len(inst[i].particles) :
            /\ inst[i].particles[j].radius > inst[i].particles[j].baseRadius
            /\ inst[i].particles[j].radius < 3 * inst[i].particles[j].baseRadius


\* C12: at most one animation frame is pending at any moment; a frame that
\* runs leaves exactly one successor, of the same closure; and the resize,
\* mousemove and timer handlers neither request a frame nor run animate.
C12_OneRenderLoop ==
    [][ /\ Cardinality(rafQueue') <= 1
        /\ \A f \in rafQueue :
             (f \notin rafQueue' /\ ~inst'[f.owner].tornDown) =>
               /\ rafQueue' = {[id |-> nextFrameId, owner |-> f.owner]}
               /\ nextFrameId' = nextFrameId + 1
        /\ (\/ innerWidth' # innerWidth
            \/ timers' # timers /\ timers' \subseteq timers
            \/ steps' = steps) =>
             /\ rafQueue' = rafQueue
             /\ nextFrameId' = nextFrameId
             /\ \A i \in 1 .. Len(inst) :
                  inst'[i].animationFrameId = inst[i].animationFrameId ]_vars

\* the loop of a second effect, after a frame of the first, the mode switch,
\* a frame of the second and a pointer move: one frame pending, its own
C12_Witness ==
    /\ Len(inst) = 2
    /\ inst[1].tornDown
    /\ inst[2].mouse.x # Undefined
    /\ inst[2].animationFrameId = Some(4)
    /\ rafQueue = {[id |-> 4, owner |-> 2]}

====
